---- MODULE Spec2Model ----
(***************************************************************************)
(* Model of the entity opportunity analyzer: main / run_analysis           *)
(* (src/main.py), compare_pages, calculate_tf_idf and the async            *)
(* capabilities (src/entity_analysis.py), get_competitor_name,             *)
(* validate_urls and                                                       *)
(* create_excel_report (src/utils.py).                                     *)
(*                                                                         *)
(* Python dicts are functions (DOMAIN = the keys), lists are sequences.    *)
(* Salience is scaled by 10 (0.4 is 4, 0.6 is 6).                          *)
(***************************************************************************)
EXTENDS Integers, Sequences, FiniteSets, TLC

\* ------------------------------------------------------------------ bounds

\* Largest number of competitor URLs / competitor analyses in an input.
MaxCompetitors == 3

\* Longest list of selections the ranking capability returns in the model.
MaxSelected == 2

\* Longest all_documents list given to calculate_tf_idf on its own.
MaxDocuments == 2

\* ------------------------------------------------------------- dict helpers

EmptyDict == [k \in {} |-> 0]

\* d[k] = v of a Python dict: adds the key or overwrites its value.
Put(d, k, v) == [x \in (DOMAIN d) \cup {k} |-> IF x = k THEN v ELSE d[x]]

Range(s) == {s[i] : i \in 1..Len(s)}

\* [x for x in s if keep[i]] : the subsequence of s at the positions in keep.
RECURSIVE SelectAt(_, _, _)
SelectAt(s, keep, i) ==
    IF i > Len(s) THEN <<>>
    ELSE (IF i \in keep THEN <<s[i]>> ELSE <<>>) \o SelectAt(s, keep, i + 1)

\* --------------------------------------------------------------------- URLs

ClientUrl    == "https://client.com/"
UrlA         == "https://a.com/p"
UrlA2        == "https://www.a.com/q"
UrlB         == "https://b.com/"
MissingUrl   == ""
MalformedUrl == "htp:/bad"

CompetitorUrlSet == {UrlA, UrlA2, UrlB, MissingUrl, MalformedUrl}
ClientUrlSet     == {ClientUrl, UrlB, MissingUrl, MalformedUrl}

\* urlparse(url).netloc on the URLs above.
Netloc(url) ==
    CASE url = ClientUrl -> "client.com"
      [] url = UrlA      -> "a.com"
      [] url = UrlA2     -> "www.a.com"
      [] url = UrlB      -> "b.com"
      [] OTHER           -> ""

\* netloc.replace('www.', '') on the netlocs above.
ReplaceWww(netloc) == IF netloc = "www.a.com" THEN "a.com" ELSE netloc

\* url_pattern.match(url): scheme http(s), a domain-like host, optional path.
UrlPatternMatch(url) == url \in {ClientUrl, UrlA, UrlA2, UrlB}

\* Python truthiness of a URL string.
Truthy(url) == url # ""

\* validate_urls: all(url_pattern.match(url) for url in urls if url).
validate_urls(urls) ==
    \A i \in 1..Len(urls) : Truthy(urls[i]) => UrlPatternMatch(urls[i])

\* used_domains after get_competitor_name(url, used_domains).
UsedAfter(url, used_domains) ==
    LET domain == ReplaceWww(Netloc(url))
        before == IF domain \in DOMAIN used_domains THEN used_domains[domain] ELSE 0
    IN Put(used_domains, domain, before + 1)

\* Mutant: the repeated domain gets no numeric suffix.
NameWithoutSuffix(url, used_domains) == "comp_" \o ReplaceWww(Netloc(url))

\* The value get_competitor_name(url, used_domains) returns.
get_competitor_name(url, used_domains) ==
    LET domain == ReplaceWww(Netloc(url))
        count  == UsedAfter(url, used_domains)[domain]
    IN IF count > 1 THEN "comp_" \o domain \o "_" \o ToString(count)
       ELSE "comp_" \o domain

\* {url: get_competitor_name(url, used_domains) for url in competitor_urls}:
\* evaluated in list order, a repeated URL overwriting its earlier entry.
RECURSIVE CompetitorNamesFrom(_, _, _, _)
CompetitorNamesFrom(competitor_urls, i, used_domains, names) ==
    IF i > Len(competitor_urls) THEN names
    ELSE CompetitorNamesFrom(competitor_urls, i + 1,
            UsedAfter(competitor_urls[i], used_domains),
            Put(names, competitor_urls[i],
                get_competitor_name(competitor_urls[i], used_domains)))

CompetitorNames(competitor_urls) ==
    CompetitorNamesFrom(competitor_urls, 1, EmptyDict, EmptyDict)

\* ------------------------------------------------------------ page texts

\* The visible text scrape_content extracts from each page, as its
\* whitespace-delimited raw words.
PageText(url) ==
    CASE url = ClientUrl -> <<"How", "bonuses", "are", "taxed">>
      [] url = UrlA      -> <<"Bonus", "tax", "refund", "schedule">>
      [] url = UrlA2     -> <<"The", "bonus", "refund", "schedule.">>
      [] url = UrlB      -> <<"bonus", "bonus", "tax-rate">>
      [] OTHER           -> <<>>

STOP_WORDS == {"how", "are", "the"}

\* re.sub(r'[^\w\s]', ' ', raw.lower()).split() on one raw word.
TokenizeWord(raw) ==
    CASE raw = "How"       -> <<"how">>
      [] raw = "Bonus"     -> <<"bonus">>
      [] raw = "The"       -> <<"the">>
      [] raw = "schedule." -> <<"schedule">>
      [] raw = "tax-rate"  -> <<"tax", "rate">>
      [] OTHER             -> <<raw>>

RECURSIVE tokenize(_)
tokenize(text) ==
    IF text = <<>> THEN <<>> ELSE TokenizeWord(Head(text)) \o tokenize(Tail(text))

remove_stopwords(words) == SelectSeq(words, LAMBDA w : w \notin STOP_WORDS)

\* Counter(words)[name]; a name that is no token has no entry.
WordCount(words, name) == Cardinality({i \in 1..Len(words) : words[i] = name})

\* get_ngrams(words)[name] for n = 2, or 0 when name is no key of it.
BigramCount(words, name) ==
    Cardinality({i \in 1..(Len(words) - 1) : words[i] \o " " \o words[i + 1] = name})

\* The keyword record analyze_content builds for one entity name (the real
\* valued density and tf_idf are left out; density is 100 * count / total).
KeywordRecord(name, content) ==
    LET words == remove_stopwords(tokenize(content))
    IN IF WordCount(words, name) > 0
       THEN [count |-> WordCount(words, name),
             phrase_counts |-> BigramCount(words, name)]
       ELSE [count |-> 0, phrase_counts |-> 0]

\* The value analyze_content returns for a document, given the entities and
\* the document sentiment the annotation service answered.
AnalysisOf(annotation, content) ==
    [entities |-> annotation.entities,
     document_sentiment |-> annotation.document_sentiment,
     keyword_analysis |->
        [name \in DOMAIN annotation.entities |-> KeywordRecord(name, content)]]

\* ---------------------------------------------------------- calculate_tf_idf

\* str.lower() on the letters the texts here use in upper case.
LowerChar(c) ==
    CASE c = "B" -> "b"
      [] c = "T" -> "t"
      [] OTHER   -> c

RECURSIVE Lower(_)
Lower(str) ==
    IF Len(str) = 0 THEN ""
    ELSE LowerChar(SubSeq(str, 1, 1)) \o Lower(SubSeq(str, 2, Len(str)))

\* The text of a document given as its raw words.
RECURSIVE JoinWords(_)
JoinWords(words) ==
    IF words = <<>> THEN ""
    ELSE IF Len(words) = 1 THEN words[1]
    ELSE words[1] \o " " \o JoinWords(Tail(words))

\* document.lower().split()
LowerSplit(document) == [i \in 1..Len(document) |-> Lower(document[i])]

\* needle in text, for two strings.
Contains(text, needle) ==
    \/ needle = ""
    \/ \E i \in 1..Len(text) : \E j \in i..Len(text) : SubSeq(text, i, j) = needle

\* Numbers as calculate_tf_idf computes them: an exception, or the product of
\* a fraction tf and the logarithm of a fraction idf.
TfIdfZero == [exc |-> "", tf |-> <<0, 1>>, idf |-> <<1, 1>>]
TfIdfRaise(exception) == [exc |-> exception, tf |-> <<0, 1>>, idf |-> <<1, 1>>]

\* tf * math.log(n / d): ZeroDivisionError on d = 0, ValueError on log of a
\* number that is not positive.
TfTimesLog(tf, n, d) ==
    IF d = 0 THEN TfIdfRaise("ZeroDivisionError")
    ELSE IF n <= 0 THEN TfIdfRaise("ValueError")
    ELSE [exc |-> "", tf |-> tf, idf |-> <<n, d>>]

\* Mutant: the guard on document_count is lost.
DocumentCountGuardLost(document_count) == FALSE

\* if document_count == 0
NoDocumentHasTerm(document_count) == document_count = 0

calculate_tf_idf(term, document, all_documents) ==
    LET words == LowerSplit(document)
        term_count == Cardinality({i \in 1..Len(words) : words[i] = Lower(term)})
        document_count ==
            Cardinality({i \in 1..Len(all_documents) :
                Contains(Lower(JoinWords(all_documents[i])), Lower(term))})
    IN IF term_count = 0 THEN TfIdfZero
       ELSE IF Len(words) = 0 THEN TfIdfRaise("ZeroDivisionError")
       ELSE IF NoDocumentHasTerm(document_count) THEN TfIdfZero
       ELSE TfTimesLog(<<term_count, Len(words)>>, Len(all_documents), document_count)

\* ------------------------------------------------------------ compare_pages

\* Mutant: the membership test against the client's items is lost.
NotInClientLost(name, client_items) == TRUE

\* entity_name not in client_entities / keyword not in client_keywords.
NotInClient(name, client_items) == name \notin DOMAIN client_items

\* Mutant: competitors are no longer recorded once two are.
AddCompetitorCapped(competitors, comp_url, metrics) ==
    IF Cardinality(DOMAIN competitors) >= 2 THEN competitors
    ELSE Put(competitors, comp_url, metrics)

\* missing[name]["competitors"][comp_url] = metrics
AddCompetitor(competitors, comp_url, metrics) == Put(competitors, comp_url, metrics)

\* Mutant: the threshold is off by one (> 2 for >= 2).
InMoreThanTwo(data) == Cardinality(DOMAIN data.competitors) > 2

\* len(data["competitors"]) >= 2
InAtLeastTwo(data) == Cardinality(DOMAIN data.competitors) >= 2

\* missing_entities after the loop body ran for competitors 1..i.
RECURSIVE MissingEntitiesAfter(_, _, _, _)
MissingEntitiesAfter(client_entities, competitive_analyses, competitive_pages, i) ==
    IF i = 0 THEN EmptyDict
    ELSE LET prev == MissingEntitiesAfter(client_entities, competitive_analyses,
                                          competitive_pages, i - 1)
             comp_entities == competitive_analyses[i].entities
             comp_url == competitive_pages[i]
             fresh == {n \in DOMAIN comp_entities : NotInClient(n, client_entities)}
         IN [n \in (DOMAIN prev) \cup fresh |->
                IF n \notin fresh THEN prev[n]
                ELSE IF n \notin DOMAIN prev
                THEN [competitors |->
                         AddCompetitor(EmptyDict, comp_url,
                                       [salience |-> comp_entities[n].salience]),
                      type |-> comp_entities[n].type]
                ELSE [prev[n] EXCEPT !.competitors =
                         AddCompetitor(@, comp_url,
                                       [salience |-> comp_entities[n].salience])]]

\* missing_keywords after the loop body ran for competitors 1..i.
RECURSIVE MissingKeywordsAfter(_, _, _, _)
MissingKeywordsAfter(client_keywords, competitive_analyses, competitive_pages, i) ==
    IF i = 0 THEN EmptyDict
    ELSE LET prev == MissingKeywordsAfter(client_keywords, competitive_analyses,
                                          competitive_pages, i - 1)
             comp_keywords == competitive_analyses[i].keyword_analysis
             comp_url == competitive_pages[i]
             fresh == {k \in DOMAIN comp_keywords : NotInClient(k, client_keywords)}
         IN [k \in (DOMAIN prev) \cup fresh |->
                IF k \notin fresh THEN prev[k]
                ELSE IF k \notin DOMAIN prev
                THEN [competitors |-> AddCompetitor(EmptyDict, comp_url, comp_keywords[k])]
                ELSE [prev[k] EXCEPT !.competitors =
                         AddCompetitor(@, comp_url, comp_keywords[k])]]

\* {name: data for name, data in missing.items() if len(data["competitors"]) >= 2}
FilterMissing(missing) ==
    [n \in {m \in DOMAIN missing : InAtLeastTwo(missing[m])} |-> missing[n]]

compare_pages(client_analysis, competitive_analyses, competitive_pages) ==
    [missing_entities |->
        FilterMissing(MissingEntitiesAfter(client_analysis.entities,
            competitive_analyses, competitive_pages, Len(competitive_analyses))),
     missing_keywords |->
        FilterMissing(MissingKeywordsAfter(client_analysis.keyword_analysis,
            competitive_analyses, competitive_pages, Len(competitive_analyses)))]

\* ----------------------------------------------------- external capabilities

NoMentions == <<>>
OneMention == <<[text |-> "bonus", type |-> "COMMON", begin_offset |-> 0]>>

\* Answers of the annotation service (response.entities and the document
\* sentiment) that analyze_content turns into its result.
AnnNone   == [entities |-> EmptyDict, document_sentiment |-> 0]
AnnBonus  == [entities |-> [n \in {"bonus"} |->
                 [type |-> "OTHER", salience |-> 4, mentions |-> NoMentions]],
              document_sentiment |-> 1]
AnnRefund == [entities |-> [n \in {"refund schedule"} |->
                 [type |-> "OTHER", salience |-> 6, mentions |-> NoMentions]],
              document_sentiment |-> 2]
AnnBoth   == [entities |-> [n \in {"bonus", "refund schedule"} |->
                 IF n = "bonus"
                 THEN [type |-> "EVENT", salience |-> 6, mentions |-> OneMention]
                 ELSE [type |-> "OTHER", salience |-> 4, mentions |-> NoMentions]],
              document_sentiment |-> 3]

AnnotationSet == {AnnNone, AnnBonus, AnnRefund, AnnBoth}

EntityNames == {"bonus", "refund schedule"}

\* EntitySelection objects the ranking capability can answer with.
SelectionSet == {[entity_name |-> n, relevance_score |-> 9] : n \in EntityNames}

SeqsUpTo(S, n) == UNION {[1..k -> S] : k \in 0..n}

\* The annotation service answers the same text with the same entities.
Annotate(text) ==
    CASE text = PageText(UrlA)  -> AnnBonus
      [] text = PageText(UrlA2) -> AnnBoth
      [] text = PageText(UrlB)  -> AnnRefund
      [] OTHER                  -> AnnNone

\* What one scrape_content call can end in: the page text, an empty text, None
\* after a caught aiohttp.ClientError (bad status, network error, invalid URL),
\* or asyncio.TimeoutError, which is no ClientError and leaves the coroutine.
FetchOutcomes(url) ==
    IF ~UrlPatternMatch(url) THEN {"invalid_url"}
    ELSE {"ok", "empty", "http_error", "network_error", "timeout"}

\* The state of the scrape_content task after the outcome.
\* "falsy" is a returned None or empty string: the callers only test it.
ScrapeTask(url, outcome) ==
    CASE outcome = "ok"      -> [st |-> "text", text |-> PageText(url)]
      [] outcome = "timeout" -> [st |-> "raised", text |-> <<>>]
      [] OTHER               -> [st |-> "falsy", text |-> <<>>]

Pending == [st |-> "pending", text |-> <<>>]

\* Python truthiness of a scrape result: None and "" are falsy.
HasContent(task) == task.st = "text"

NoAnalysis == [entities |-> EmptyDict, document_sentiment |-> 0,
               keyword_analysis |-> EmptyDict]
NoComparison == [missing_entities |-> EmptyDict, missing_keywords |-> EmptyDict]

\* -------------------------------------------------------------------- state

VARIABLES
    urls,                  \* the urls dict given to main
    pc,                    \* where main / run_analysis stands
    competitor_names,      \* run_analysis: url -> label
    session,               \* the aiohttp.ClientSession: "none", "open", "closed"
    scrape_results,        \* one scrape_content task per URL, client first
    valid_competitor_urls,
    competitive_contents,
    analysis_results,      \* one analyze_content task per document, client first
    client_analysis,
    competitive_analyses,
    comparison_results,
    ranking_calls,         \* number of calls made to the ranking capability
    entity_details,        \* the candidate summaries given to the ranking capability
    selected_entities,
    recommendations,       \* one generate_entity_recommendations task per selection
    result,                \* what run_analysis returned, <<>> while it has not
    report_written,        \* main wrote the report file
    tf_idf_call,           \* the arguments of a calculate_tf_idf call
    tf_idf,                \* what that call returned or raised
    error                  \* the message main logged with logger.error, or ""

vars == <<urls, pc, competitor_names, session, scrape_results, valid_competitor_urls,
          competitive_contents, analysis_results, client_analysis,
          competitive_analyses, comparison_results, ranking_calls, entity_details,
          selected_entities, recommendations, result, report_written, error,
          tf_idf_call, tf_idf>>

NoTfIdfCall == [term |-> "", document |-> <<>>, all_documents |-> <<>>]

client_url == urls.client_url
competitor_urls == urls.competitor_urls

\* The rest of the state before anything ran.
Idle ==
    /\ competitor_names = EmptyDict
    /\ session = "none"
    /\ scrape_results = <<>>
    /\ competitive_contents = <<>>
    /\ analysis_results = <<>>
    /\ comparison_results = NoComparison
    /\ ranking_calls = 0
    /\ entity_details = {}
    /\ selected_entities = <<>>
    /\ recommendations = <<>>
    /\ result = <<>>
    /\ report_written = FALSE
    /\ error = ""

Init ==
    /\ tf_idf_call = NoTfIdfCall
    /\ tf_idf = TfIdfZero
    /\ urls \in [client_url : ClientUrlSet,
                 competitor_urls : SeqsUpTo(CompetitorUrlSet, MaxCompetitors)]
    /\ pc = "main"
    /\ valid_competitor_urls = <<>>
    /\ client_analysis = NoAnalysis
    /\ competitive_analyses = <<>>
    /\ Idle

\* An exception leaves run_analysis: the session's async with block exits and
\* main's except clause logs the message and returns.
Abort(message) ==
    /\ pc' = "returned"
    /\ session' = "closed"
    /\ error' = message

\* main up to the await of the scrape gather: the three input checks, then
\* run_analysis's label mapping, session and scrape tasks.
MainStart ==
    /\ pc = "main"
    /\ IF ~Truthy(client_url)
       THEN /\ pc' = "returned"
            /\ error' = "Please enter a client URL"
            /\ UNCHANGED <<competitor_names, session, scrape_results>>
       ELSE IF Len(competitor_urls) < 2
       THEN /\ pc' = "returned"
            /\ error' = "Please enter at least 2 competitor URLs"
            /\ UNCHANGED <<competitor_names, session, scrape_results>>
       ELSE IF ~validate_urls(<<client_url>> \o competitor_urls)
       THEN /\ pc' = "returned"
            /\ error' = "Invalid URL format. Please enter valid URLs."
            /\ UNCHANGED <<competitor_names, session, scrape_results>>
       ELSE /\ pc' = "await_scrape"
            /\ competitor_names' = CompetitorNames(competitor_urls)
            /\ session' = "open"
            /\ scrape_results' = [i \in 1..(1 + Len(competitor_urls)) |-> Pending]
            /\ error' = ""
    /\ UNCHANGED <<urls, tf_idf_call, tf_idf, entity_details, valid_competitor_urls, competitive_contents, analysis_results,
                   client_analysis, competitive_analyses, comparison_results,
                   ranking_calls, selected_entities, recommendations, result,
                   report_written>>

ScrapeUrls == <<client_url>> \o competitor_urls

\* One scrape_content task runs to its end.
ScrapeFinish(i) ==
    /\ pc = "await_scrape"
    /\ scrape_results[i].st = "pending"
    /\ \E outcome \in FetchOutcomes(ScrapeUrls[i]) :
          scrape_results' = [scrape_results EXCEPT ![i] = ScrapeTask(ScrapeUrls[i], outcome)]
    /\ UNCHANGED <<urls, tf_idf_call, tf_idf, entity_details, pc, competitor_names, session, valid_competitor_urls,
                   competitive_contents, analysis_results, client_analysis,
                   competitive_analyses, comparison_results, ranking_calls,
                   selected_entities, recommendations, result, report_written, error>>

\* asyncio.gather without return_exceptions: the first exception of a task is
\* raised in the awaiting coroutine, whatever the other tasks are doing.
GatherRaised(tasks) == \E i \in 1..Len(tasks) : tasks[i].st = "raised"
\* Mutant: the gather returns as soon as one task has returned.
GatherOneDone(tasks) == \E i \in 1..Len(tasks) : tasks[i].st \notin {"pending", "raised"}

GatherDone(tasks) == \A i \in 1..Len(tasks) : tasks[i].st \notin {"pending", "raised"}

ScrapeGatherRaise ==
    /\ pc = "await_scrape"
    /\ GatherRaised(scrape_results)
    /\ Abort("TimeoutError")
    /\ UNCHANGED <<urls, tf_idf_call, tf_idf, entity_details, competitor_names, scrape_results, valid_competitor_urls,
                   competitive_contents, analysis_results, client_analysis,
                   competitive_analyses, comparison_results, ranking_calls,
                   selected_entities, recommendations, result, report_written>>

\* Mutant: the check of the client content is lost.
ClientCheckLost(results) == FALSE

\* if not client_content
ClientScrapeFailed(results) == ~HasContent(results[1])

\* Positions of the competitors whose content is truthy.
ValidPositions(results) == {i \in 1..(Len(results) - 1) : HasContent(results[i + 1])}

\* The scrape gather returned: the client check, the filtering of the
\* competitors and the creation of the analyze tasks.
ScrapeGatherReturn ==
    /\ pc = "await_scrape"
    /\ GatherDone(scrape_results)
    /\ IF ClientScrapeFailed(scrape_results)
       THEN /\ Abort("Failed to scrape client page")
            /\ UNCHANGED <<valid_competitor_urls, competitive_contents, analysis_results>>
       ELSE /\ pc' = "await_analyze"
            /\ valid_competitor_urls' =
                  SelectAt(competitor_urls, ValidPositions(scrape_results), 1)
            /\ competitive_contents' =
                  SelectAt([i \in 1..Len(competitor_urls) |-> scrape_results[i + 1].text],
                           ValidPositions(scrape_results), 1)
            /\ analysis_results' =
                  [j \in 1..(1 + Cardinality(ValidPositions(scrape_results))) |->
                      [st |-> "pending", value |-> NoAnalysis]]
            /\ UNCHANGED <<session, error>>
    /\ UNCHANGED <<urls, tf_idf_call, tf_idf, entity_details, competitor_names, scrape_results, client_analysis,
                   competitive_analyses, comparison_results, ranking_calls,
                   selected_entities, recommendations, result, report_written>>

\* The document the j-th analyze_content task was given.
AnalyzedContent(j) ==
    IF j = 1 THEN scrape_results[1].text ELSE competitive_contents[j - 1]

\* One analyze_content task runs to its end: the annotation service answers
\* and the result is built, or the call fails and the exception leaves it.
AnalyzeFinish(j) ==
    /\ pc = "await_analyze"
    /\ analysis_results[j].st = "pending"
    /\ \/ analysis_results' = [analysis_results EXCEPT ![j] =
                 [st |-> "done",
                  value |-> AnalysisOf(Annotate(AnalyzedContent(j)), AnalyzedContent(j))]]
       \/ analysis_results' = [analysis_results EXCEPT ![j] =
                 [st |-> "raised", value |-> NoAnalysis]]
    /\ UNCHANGED <<urls, tf_idf_call, tf_idf, entity_details, pc, competitor_names, session, scrape_results,
                   valid_competitor_urls, competitive_contents, client_analysis,
                   competitive_analyses, comparison_results, ranking_calls,
                   selected_entities, recommendations, result, report_written, error>>

AnalyzeGatherRaise ==
    /\ pc = "await_analyze"
    /\ GatherRaised(analysis_results)
    /\ Abort("annotation failed")
    /\ UNCHANGED <<urls, tf_idf_call, tf_idf, entity_details, competitor_names, scrape_results, valid_competitor_urls,
                   competitive_contents, analysis_results, client_analysis,
                   competitive_analyses, comparison_results, ranking_calls,
                   selected_entities, recommendations, result, report_written>>

AnalyzeGatherReturn ==
    /\ pc = "await_analyze"
    /\ GatherDone(analysis_results)
    /\ client_analysis' = analysis_results[1].value
    /\ competitive_analyses' =
          [j \in 1..(Len(analysis_results) - 1) |-> analysis_results[j + 1].value]
    /\ pc' = "compare"
    /\ UNCHANGED <<urls, tf_idf_call, tf_idf, entity_details, competitor_names, session, scrape_results,
                   valid_competitor_urls, competitive_contents, analysis_results,
                   comparison_results, ranking_calls, selected_entities,
                   recommendations, result, report_written, error>>

\* comparison_results = compare_pages(client_analysis, competitive_analyses,
\*                                    valid_competitor_urls)
ComparePagesCall ==
    /\ pc = "compare"
    /\ comparison_results' =
          compare_pages(client_analysis, competitive_analyses, valid_competitor_urls)
    /\ pc' = "relabel"
    /\ UNCHANGED <<urls, tf_idf_call, tf_idf, entity_details, competitor_names, session, scrape_results,
                   valid_competitor_urls, competitive_contents, analysis_results,
                   client_analysis, competitive_analyses, ranking_calls,
                   selected_entities, recommendations, result, report_written, error>>

\* Position of the first occurrence of x in s (0 when there is none).
FirstPos(s, x) ==
    IF x \in Range(s) THEN CHOOSE i \in 1..Len(s) :
                              s[i] = x /\ \A j \in 1..(i - 1) : s[j] # x
    ELSE 0

\* updated_competitors of one item: every URL key replaced by its label, in the
\* insertion order of the keys, a label met again overwriting its metrics.
UpdatedCompetitors(competitors, names, order) ==
    [label \in {names[url] : url \in DOMAIN competitors} |->
        LET from == {url \in DOMAIN competitors : names[url] = label}
            last == CHOOSE url \in from :
                       \A other \in from : FirstPos(order, other) <= FirstPos(order, url)
        IN competitors[last]]

RelabelItems(items, names, order) ==
    [name \in DOMAIN items |->
        [items[name] EXCEPT !.competitors = UpdatedCompetitors(@, names, order)]]

\* The loop that replaces the competitor URLs by their labels.
Relabel ==
    /\ pc = "relabel"
    /\ comparison_results' =
          [missing_entities |-> RelabelItems(comparison_results.missing_entities,
                                             competitor_names, valid_competitor_urls),
           missing_keywords |-> RelabelItems(comparison_results.missing_keywords,
                                             competitor_names, valid_competitor_urls)]
    /\ pc' = "select"
    /\ UNCHANGED <<urls, tf_idf_call, tf_idf, entity_details, competitor_names, session, scrape_results,
                   valid_competitor_urls, competitive_contents, analysis_results,
                   client_analysis, competitive_analyses, ranking_calls,
                   selected_entities, recommendations, result, report_written, error>>

\* max(s) for a non-empty collection of numbers.
Max(S) == CHOOSE x \in S : \A y \in S : y <= x

\* Mutant: only one of the missing entities is summarised.
CandidateSummariesOfOne(missing_entities) ==
    LET first == CHOOSE name \in DOMAIN missing_entities : TRUE
    IN {[entity_name |-> first,
         entity_type |-> missing_entities[first].type,
         count_of_competitors_with_entity |->
             Cardinality(DOMAIN missing_entities[first].competitors),
         max_salience |-> Max({missing_entities[first].competitors[c].salience :
                                  c \in DOMAIN missing_entities[first].competitors})]}

\* entities of select_entities_for_integration: one summary per item of
\* missing_entities (the keys are distinct, so the list is a set of records).
CandidateSummaries(missing_entities) ==
    {[entity_name |-> name,
      entity_type |-> missing_entities[name].type,
      count_of_competitors_with_entity |->
          Cardinality(DOMAIN missing_entities[name].competitors),
      max_salience |-> Max({missing_entities[name].competitors[c].salience :
                               c \in DOMAIN missing_entities[name].competitors})]
        : name \in DOMAIN missing_entities}

PendingTasks(n) == [k \in 1..n |-> [st |-> "pending", value |-> <<>>]]

\* select_entities_for_integration up to its await: an empty mapping returns
\* at once, anything else goes to the ranking capability.
SelectStart ==
    /\ pc = "select"
    /\ IF comparison_results.missing_entities = EmptyDict
       THEN /\ selected_entities' = <<>>
            /\ recommendations' = PendingTasks(0)
            /\ pc' = "await_advise"
            /\ UNCHANGED <<ranking_calls, entity_details>>
       ELSE /\ ranking_calls' = ranking_calls + 1
            /\ entity_details' = CandidateSummaries(comparison_results.missing_entities)
            /\ pc' = "await_select"
            /\ UNCHANGED <<selected_entities, recommendations>>
    /\ UNCHANGED <<urls, tf_idf_call, tf_idf, competitor_names, session, scrape_results,
                   valid_competitor_urls, competitive_contents, analysis_results,
                   client_analysis, competitive_analyses, comparison_results,
                   result, report_written, error>>

\* The ranking capability answers; the advise tasks are created.
SelectFinish ==
    /\ pc = "await_select"
    /\ \E selection \in SeqsUpTo(SelectionSet, MaxSelected) :
          /\ selected_entities' = selection
          /\ recommendations' = PendingTasks(Len(selection))
    /\ pc' = "await_advise"
    /\ UNCHANGED <<urls, tf_idf_call, tf_idf, entity_details, competitor_names, session, scrape_results,
                   valid_competitor_urls, competitive_contents, analysis_results,
                   client_analysis, competitive_analyses, comparison_results,
                   ranking_calls, result, report_written, error>>

SelectRaise ==
    /\ pc = "await_select"
    /\ Abort("ranking failed")
    /\ UNCHANGED <<urls, tf_idf_call, tf_idf, entity_details, competitor_names, scrape_results, valid_competitor_urls,
                   competitive_contents, analysis_results, client_analysis,
                   competitive_analyses, comparison_results, ranking_calls,
                   selected_entities, recommendations, result, report_written>>

\* One generate_entity_recommendations task runs to its end.
AdviseFinish(k) ==
    /\ pc = "await_advise"
    /\ recommendations[k].st = "pending"
    /\ \/ recommendations' = [recommendations EXCEPT ![k] =
             [st |-> "done", value |-> <<selected_entities[k].entity_name, k>>]]
       \/ recommendations' = [recommendations EXCEPT ![k] =
             [st |-> "raised", value |-> <<>>]]
    /\ UNCHANGED <<urls, tf_idf_call, tf_idf, entity_details, pc, competitor_names, session, scrape_results,
                   valid_competitor_urls, competitive_contents, analysis_results,
                   client_analysis, competitive_analyses, comparison_results,
                   ranking_calls, selected_entities, result, report_written, error>>

AdviseGatherRaise ==
    /\ pc = "await_advise"
    /\ GatherRaised(recommendations)
    /\ Abort("generation failed")
    /\ UNCHANGED <<urls, tf_idf_call, tf_idf, entity_details, competitor_names, scrape_results, valid_competitor_urls,
                   competitive_contents, analysis_results, client_analysis,
                   competitive_analyses, comparison_results, ranking_calls,
                   selected_entities, recommendations, result, report_written>>

\* {entity_selection.entity_name: recommendation for ... in zip(...)}: a name
\* selected again overwrites the earlier recommendation.
EntityRecommendations(selection, recs) ==
    [name \in {selection[k].entity_name : k \in 1..Len(selection)} |->
        LET last == CHOOSE k \in 1..Len(selection) :
                       /\ selection[k].entity_name = name
                       /\ \A m \in (k + 1)..Len(selection) :
                             selection[m].entity_name # name
        IN recs[last].value]

\* The advise gather returned: run_analysis builds its result and returns.
AdviseGatherReturn ==
    /\ pc = "await_advise"
    /\ GatherDone(recommendations)
    /\ result' = [client_analysis |-> client_analysis,
                  competitive_analyses |-> competitive_analyses,
                  comparison_results |-> comparison_results,
                  competitor_names |-> competitor_names,
                  entity_recommendations |->
                      EntityRecommendations(selected_entities, recommendations),
                  client_url |-> client_url,
                  recommendation_overview |-> selected_entities]
    /\ session' = "closed"
    /\ pc' = "report"
    /\ UNCHANGED <<urls, tf_idf_call, tf_idf, entity_details, competitor_names, scrape_results, valid_competitor_urls,
                   competitive_contents, analysis_results, client_analysis,
                   competitive_analyses, comparison_results, ranking_calls,
                   selected_entities, recommendations, report_written, error>>

\* list(d.keys()) of a dict filled in the order of a list: each key once, at
\* the place of its first occurrence.
RECURSIVE KeysInOrder(_)
KeysInOrder(list) ==
    IF list = <<>> THEN <<>>
    ELSE LET front == KeysInOrder(SubSeq(list, 1, Len(list) - 1))
             last  == list[Len(list)]
         IN IF last \in Range(front) THEN front ELSE Append(front, last)

\* The URL create_excel_report names as the source of the rows of each
\* competitor analysis: zip(competitor_names.keys(), competitive_analyses),
\* the keys being in the order run_analysis filled the dict from key_order.
CompetitorSources(r, key_order) ==
    LET keys == KeysInOrder(key_order)
    IN [i \in {i \in 1..Len(r.competitive_analyses) : i <= Len(keys)} |-> keys[i]]

\* The analyses create_excel_report writes rows for: the client's, and the
\* competitors' as far as zip(competitor_names.keys(), competitive_analyses) goes.
RenderedAnalyses(r) ==
    {r.client_analysis} \cup
    {r.competitive_analyses[i] : i \in
        {i \in 1..Len(r.competitive_analyses) :
            i <= Cardinality(DOMAIN r.competitor_names)}}

\* The exception create_excel_report raises on a result, "" when it returns:
\* ", ".join(data["mentions"]) on a list of mention dicts is a TypeError, and
\* data["relevance"] on a missing-entity record is a KeyError.
ReportError(r) ==
    IF \E a \in RenderedAnalyses(r) : \E n \in DOMAIN a.entities :
          a.entities[n].mentions # <<>>
    THEN "TypeError: sequence item 0: expected str instance, dict found"
    ELSE IF r.comparison_results.missing_entities # EmptyDict
    THEN "KeyError: 'relevance'"
    ELSE ""

\* Mutant: the report file is written whatever the rendering did.
CreateReportAlways ==
    /\ pc = "report"
    /\ report_written' = TRUE
    /\ pc' = "returned"
    /\ UNCHANGED <<urls, tf_idf_call, tf_idf, entity_details, competitor_names, session, scrape_results,
                   valid_competitor_urls, competitive_contents, analysis_results,
                   client_analysis, competitive_analyses, comparison_results,
                   ranking_calls, selected_entities, recommendations, result, error>>

\* main after run_analysis returned: the report is rendered and written, or
\* the exception of the rendering is logged.
CreateReport ==
    /\ pc = "report"
    /\ IF ReportError(result) = ""
       THEN report_written' = TRUE /\ UNCHANGED error
       ELSE error' = ReportError(result) /\ UNCHANGED report_written
    /\ pc' = "returned"
    /\ UNCHANGED <<urls, tf_idf_call, tf_idf, entity_details, competitor_names, session, scrape_results,
                   valid_competitor_urls, competitive_contents, analysis_results,
                   client_analysis, competitive_analyses, comparison_results,
                   ranking_calls, selected_entities, recommendations, result>>

Next ==
    \/ MainStart
    \/ \E i \in 1..(MaxCompetitors + 1) : i <= Len(scrape_results) /\ ScrapeFinish(i)
    \/ ScrapeGatherRaise
    \/ ScrapeGatherReturn
    \/ \E j \in 1..(MaxCompetitors + 1) : j <= Len(analysis_results) /\ AnalyzeFinish(j)
    \/ AnalyzeGatherRaise
    \/ AnalyzeGatherReturn
    \/ ComparePagesCall
    \/ Relabel
    \/ SelectStart
    \/ SelectFinish
    \/ SelectRaise
    \/ \E k \in 1..MaxSelected : k <= Len(recommendations) /\ AdviseFinish(k)
    \/ AdviseGatherRaise
    \/ AdviseGatherReturn
    \/ CreateReport

Spec == Init /\ [][Next]_vars

\* ------------------------------------------- compare_pages on its own inputs

\* Analyses analyze_content can return: every answer of the annotation
\* service on a competitor page, and on the client page for the baseline.
CompetitorAnalysisSet ==
    {AnalysisOf(a, PageText(u)) : a \in AnnotationSet, u \in {UrlA, UrlB}}
ClientAnalysisSet == {AnalysisOf(a, PageText(ClientUrl)) : a \in AnnotationSet}

\* The keys compare_pages is given for the competitors, repeated ones included.
CompetitorLabelSet == {UrlA, UrlA2, UrlB}

InitCompare ==
    /\ tf_idf_call = NoTfIdfCall
    /\ tf_idf = TfIdfZero
    /\ urls = [client_url |-> ClientUrl, competitor_urls |-> <<>>]
    /\ pc = "compare"
    /\ client_analysis \in ClientAnalysisSet
    /\ competitive_analyses \in SeqsUpTo(CompetitorAnalysisSet, MaxCompetitors)
    /\ Idle
    /\ \E pages \in [1..Len(competitive_analyses) -> CompetitorLabelSet] :
          valid_competitor_urls = pages

SpecCompare == InitCompare /\ [][ComparePagesCall]_vars

\* ---------------------------------------- calculate_tf_idf on its own inputs

TermSet == {"", "bon", "bonus", "Bonus", "tax", "refund schedule"}

DocumentSet == {<<>>, <<"bonus">>, <<"Bonus", "tax", "bonus">>, <<"bonuses", "Taxed">>,
                <<"refund", "schedule">>}

InitTfIdf ==
    /\ urls = [client_url |-> ClientUrl, competitor_urls |-> <<>>]
    /\ pc = "tf_idf"
    /\ valid_competitor_urls = <<>>
    /\ client_analysis = NoAnalysis
    /\ competitive_analyses = <<>>
    /\ Idle
    /\ tf_idf_call \in [term : TermSet, document : DocumentSet,
                        all_documents : SeqsUpTo(DocumentSet, MaxDocuments)]
    /\ tf_idf = TfIdfZero

\* calculate_tf_idf(term, document, all_documents) runs.
CalculateTfIdfCall ==
    /\ pc = "tf_idf"
    /\ tf_idf' = calculate_tf_idf(tf_idf_call.term, tf_idf_call.document,
                                  tf_idf_call.all_documents)
    /\ pc' = "tf_idf_done"
    /\ UNCHANGED <<urls, entity_details, tf_idf_call, competitor_names, session,
                   scrape_results, valid_competitor_urls, competitive_contents,
                   analysis_results, client_analysis, competitive_analyses,
                   comparison_results, ranking_calls, selected_entities,
                   recommendations, result, report_written, error>>

SpecTfIdf == InitTfIdf /\ [][CalculateTfIdfCall]_vars

\* ------------------------------------------------------------------ claims

\* compare_pages has returned and its value is still keyed by URL.
Compared == pc = "relabel"

\* Positions of the competitor analyses that contain the entity.
Holders(analyses, name) ==
    {i \in 1..Len(analyses) : name \in DOMAIN analyses[i].entities}

\* The entity is absent from the baseline and present in at least 2 competitors.
Qualifies(name) ==
    /\ name \notin DOMAIN client_analysis.entities
    /\ Cardinality(Holders(competitive_analyses, name)) >= 2

\* The entity is returned with one entry per competitor that contains it, keyed
\* by that competitor's label and carrying that competitor's salience.
ReturnedWithEveryHolder(name) ==
    /\ name \in DOMAIN comparison_results.missing_entities
    /\ LET competitors == comparison_results.missing_entities[name].competitors
           holders == Holders(competitive_analyses, name)
       IN /\ Cardinality(DOMAIN competitors) = Cardinality(holders)
          /\ \A i \in holders :
                /\ valid_competitor_urls[i] \in DOMAIN competitors
                /\ competitors[valid_competitor_urls[i]] =
                      [salience |-> competitive_analyses[i].entities[name].salience]

DistinctLabels(positions) ==
    \A i, j \in positions : i # j => valid_competitor_urls[i] # valid_competitor_urls[j]

\* C1 as stated: for every list of competitor labels, an entity absent from the
\* baseline and present in at least 2 competitor analyses is returned in
\* missing_entities with one entry per competitor that contains it.
C1_AsStated ==
    Compared => \A name \in EntityNames : Qualifies(name) => ReturnedWithEveryHolder(name)

\* C1 amended: the same, for the entities whose containing competitors have
\* pairwise distinct labels.
C1_QualifyingEntityReturned ==
    Compared => \A name \in EntityNames :
        (Qualifies(name) /\ DistinctLabels(Holders(competitive_analyses, name)))
            => ReturnedWithEveryHolder(name)

\* "refund schedule" is in two competitors with salience 0.4 and 0.6 under two
\* labels, not in the baseline, and is returned with both entries.
C1_Witness ==
    /\ Compared
    /\ Qualifies("refund schedule")
    /\ "refund schedule" \in DOMAIN comparison_results.missing_entities
    /\ \E a, b \in DOMAIN comparison_results.missing_entities["refund schedule"].competitors :
          /\ comparison_results.missing_entities["refund schedule"].competitors[a].salience = 4
          /\ comparison_results.missing_entities["refund schedule"].competitors[b].salience = 6

\* C3: no key of the baseline's entities is a key of missing_entities, and no
\* key of the baseline's keyword_analysis is a key of missing_keywords.
C3_BaselineNeverMissing ==
    Compared =>
        /\ DOMAIN comparison_results.missing_entities
              \cap DOMAIN client_analysis.entities = {}
        /\ DOMAIN comparison_results.missing_keywords
              \cap DOMAIN client_analysis.keyword_analysis = {}

\* The baseline has "bonus", at least two competitors under distinct labels have
\* it too, and the comparison returned another entity and keyword as missing.
C3_Witness ==
    /\ Compared
    /\ "bonus" \in DOMAIN client_analysis.entities
    /\ "bonus" \in DOMAIN client_analysis.keyword_analysis
    /\ Cardinality({valid_competitor_urls[i] :
                       i \in Holders(competitive_analyses, "bonus")}) >= 2
    /\ comparison_results.missing_entities # EmptyDict
    /\ comparison_results.missing_keywords # EmptyDict

Perms(n) == {p \in [1..n -> 1..n] : \A i, j \in 1..n : i # j => p[i] # p[j]}
Permute(s, p) == [i \in 1..Len(s) |-> s[p[i]]]

\* compare_pages on the competitor list and the label list permuted alike.
ComparedPermuted(p) ==
    compare_pages(client_analysis, Permute(competitive_analyses, p),
                  Permute(valid_competitor_urls, p))

FirstHolder(analyses, name) ==
    CHOOSE i \in Holders(analyses, name) : \A j \in Holders(analyses, name) : i <= j

\* C4 as stated: with pairwise distinct labels, permuting the competitors and
\* the labels alike yields the same result, the type of every item included.
C4_AsStated ==
    (Compared /\ DistinctLabels(1..Len(valid_competitor_urls))) =>
        \A p \in Perms(Len(competitive_analyses)) :
            ComparedPermuted(p) = comparison_results

\* C4 amended: with pairwise distinct labels, the permuted call returns the same
\* item names and for each item the same label-to-metrics mapping; the type of a
\* missing entity is the one its first competitor in list order reports.
C4_SameNamesAndMetrics ==
    (Compared /\ DistinctLabels(1..Len(valid_competitor_urls))) =>
        \A p \in Perms(Len(competitive_analyses)) :
            LET permuted == ComparedPermuted(p)
                analyses == Permute(competitive_analyses, p)
            IN /\ permuted.missing_keywords = comparison_results.missing_keywords
               /\ DOMAIN permuted.missing_entities =
                     DOMAIN comparison_results.missing_entities
               /\ \A name \in DOMAIN comparison_results.missing_entities :
                     /\ permuted.missing_entities[name].competitors =
                           comparison_results.missing_entities[name].competitors
                     /\ permuted.missing_entities[name].type =
                           analyses[FirstHolder(analyses, name)].entities[name].type
                     /\ comparison_results.missing_entities[name].type =
                           competitive_analyses[FirstHolder(competitive_analyses, name)]
                               .entities[name].type

\* Three competitors under three labels, "bonus" missing from the baseline and
\* reported with two different types, so that the order decides the type.
C4_Witness ==
    /\ Compared
    /\ Len(competitive_analyses) = 3
    /\ DistinctLabels(1..3)
    /\ "bonus" \in DOMAIN comparison_results.missing_entities
    /\ Cardinality(DOMAIN comparison_results.missing_entities["bonus"].competitors) = 3
    /\ \E i, j \in Holders(competitive_analyses, "bonus") :
          competitive_analyses[i].entities["bonus"].type #
              competitive_analyses[j].entities["bonus"].type
    /\ comparison_results.missing_keywords # EmptyDict

\* Every entry of both mappings of a comparison has at least 2 competitors.
AtLeastTwoEverywhere(comparison) ==
    /\ \A name \in DOMAIN comparison.missing_entities :
          Cardinality(DOMAIN comparison.missing_entities[name].competitors) >= 2
    /\ \A keyword \in DOMAIN comparison.missing_keywords :
          Cardinality(DOMAIN comparison.missing_keywords[keyword].competitors) >= 2

\* C2: every entry of missing_entities and of missing_keywords has at least 2
\* competitor mappings, in the value compare_pages returned, after the
\* relabeling and in the comparison_results of run_analysis's result.
C2_AtLeastTwoCompetitors ==
    /\ pc \in {"relabel", "select", "await_select", "await_advise", "report", "returned"}
          => AtLeastTwoEverywhere(comparison_results)
    /\ result # <<>> => AtLeastTwoEverywhere(result.comparison_results)

\* A run returned a result in which "bonus" is missing with the labels of two
\* pages of one domain, and with a keyword record as well.
C2_Witness ==
    /\ result # <<>>
    /\ "bonus" \in DOMAIN result.comparison_results.missing_entities
    /\ {"comp_a.com", "comp_a.com_2"} \subseteq
          DOMAIN result.comparison_results.missing_entities["bonus"].competitors
    /\ "bonus" \in DOMAIN result.comparison_results.missing_keywords

\* Positions of the competitors whose fetch failed or returned nothing.
FailedCompetitors ==
    {i \in 1..Len(competitor_urls) :
        scrape_results # <<>> /\ scrape_results[i + 1].st \in {"falsy", "raised"}}

BaselineFetched == scrape_results # <<>> /\ HasContent(scrape_results[1])

\* No analyze, ranking or generation call of the run failed.
NothingElseFailed ==
    /\ \A j \in 1..Len(analysis_results) : analysis_results[j].st # "raised"
    /\ \A k \in 1..Len(recommendations) : recommendations[k].st # "raised"
    /\ error # "ranking failed"

\* C5 as stated: with the baseline fetched and no failure in a later stage, a
\* run in which competitor fetches failed (timeout, bad status, network error)
\* still returns a result.
C5_AsStated ==
    (pc = "returned" /\ BaselineFetched /\ FailedCompetitors # {} /\ NothingElseFailed)
        => result # <<>>

\* C6 as stated: in the result of a run, the URL of a competitor whose fetch
\* failed or returned empty content is no key of competitor_names, and its
\* label is in no competitors mapping of comparison_results.
C6_AsStated ==
    result # <<>> =>
        \A i \in FailedCompetitors :
            /\ competitor_urls[i] \notin DOMAIN result.competitor_names
            /\ \A name \in DOMAIN result.comparison_results.missing_entities :
                  competitor_names[competitor_urls[i]] \notin
                      DOMAIN result.comparison_results.missing_entities[name].competitors
            /\ \A keyword \in DOMAIN result.comparison_results.missing_keywords :
                  competitor_names[competitor_urls[i]] \notin
                      DOMAIN result.comparison_results.missing_keywords[keyword].competitors

\* C7 as stated: when an advise call fails, the other advise calls of the stage
\* run to completion and the run assembles its result and its report.
C7_AsStated ==
    (/\ pc = "returned"
     /\ Len(recommendations) >= 2
     /\ Cardinality({k \in 1..Len(recommendations) : recommendations[k].st = "raised"}) = 1)
        => /\ \A k \in 1..Len(recommendations) : recommendations[k].st # "pending"
           /\ result # <<>>
           /\ report_written

\* C8 as stated: the failure of analyze_content for a competitor document does
\* not abort the run, which goes on to compare and returns a result unless a
\* later call fails.
C8_AsStated ==
    (/\ pc = "returned"
     /\ \E j \in 2..Len(analysis_results) : analysis_results[j].st = "raised"
     /\ analysis_results[1].st = "done")
        => (result # <<>> \/ error \in {"ranking failed", "generation failed"})

\* The input has no client URL, fewer than 2 competitor URLs, or a URL that is
\* missing or malformed.
InvalidInput ==
    \/ ~Truthy(client_url)
    \/ Len(competitor_urls) < 2
    \/ \E i \in 1..Len(ScrapeUrls) : ~Truthy(ScrapeUrls[i]) \/ ~UrlPatternMatch(ScrapeUrls[i])

\* C9 as stated: on an invalid input main logs an error and returns with no
\* fetch started and no report written.
C9_AsStated ==
    InvalidInput =>
        /\ scrape_results = <<>>
        /\ session = "none"
        /\ ~report_written
        /\ pc = "returned" => error # ""

\* C10: once the baseline fetch failed or returned empty content, no
\* analyze_content call, no ranking call and no generation call is started, no
\* result is returned and no report is written; the run ends with the error.
C10_BaselineFailureAborts ==
    (scrape_results # <<>> /\ scrape_results[1].st \in {"falsy", "raised"}) =>
        /\ pc \in {"await_scrape", "returned"}
        /\ analysis_results = <<>>
        /\ ranking_calls = 0
        /\ recommendations = <<>>
        /\ result = <<>>
        /\ ~report_written
        /\ pc = "returned" => error \in {"Failed to scrape client page", "TimeoutError"}

\* The baseline fetch returned nothing, every competitor fetch returned its
\* page, and the run ended on the client check.
C10_Witness ==
    /\ pc = "returned"
    /\ scrape_results # <<>>
    /\ scrape_results[1].st = "falsy"
    /\ \A i \in 2..Len(scrape_results) : scrape_results[i].st = "text"
    /\ error = "Failed to scrape client page"

\* Every task of a fan-out stage has completed (returned or raised).
AllCompleted(tasks) == \A i \in 1..Len(tasks) : tasks[i].st # "pending"

\* Every task of a fan-out stage has returned a value.
AllReturned(tasks) == \A i \in 1..Len(tasks) : tasks[i].st \in {"text", "falsy", "done"}

\* The competitors mappings of a comparison are keyed by labels, not by URLs.
Relabeled(comparison) ==
    \A kind \in {"missing_entities", "missing_keywords"} :
        \A name \in DOMAIN comparison[kind] :
            DOMAIN comparison[kind][name].competitors
                \subseteq {competitor_names[url] : url \in DOMAIN competitor_names}

\* C11: stages are separated by barriers. Analyze tasks are created and run
\* only when every fetch task has completed; the analyses are taken and
\* compare_pages runs only when every analyze task has completed; the selector
\* starts only on the compared and relabeled result; advise tasks are created
\* only when the selector has returned; and the values of a stage are combined
\* only when every task of that stage has returned.
C11_StagesSeparatedByBarriers ==
    [][/\ analysis_results' # analysis_results
            => (AllCompleted(scrape_results) /\ scrape_results # <<>>)
       /\ valid_competitor_urls' # valid_competitor_urls => AllReturned(scrape_results)
       /\ (client_analysis' # client_analysis \/ competitive_analyses' # competitive_analyses)
            => (AllReturned(analysis_results) /\ analysis_results # <<>>)
       /\ (pc = "compare" /\ pc' # pc)
            => (AllReturned(analysis_results) /\ analysis_results # <<>>)
       /\ (ranking_calls' # ranking_calls \/ (pc = "select" /\ pc' # pc))
            => (/\ pc = "select"
                /\ comparison_results =
                      [missing_entities |->
                          RelabelItems(FilterMissing(MissingEntitiesAfter(
                              client_analysis.entities, competitive_analyses,
                              valid_competitor_urls, Len(competitive_analyses))),
                              competitor_names, valid_competitor_urls),
                       missing_keywords |->
                          RelabelItems(FilterMissing(MissingKeywordsAfter(
                              client_analysis.keyword_analysis, competitive_analyses,
                              valid_competitor_urls, Len(competitive_analyses))),
                              competitor_names, valid_competitor_urls)]
                /\ Relabeled(comparison_results))
       /\ recommendations' # recommendations
            => (\/ pc = "await_advise"
                \/ pc = "await_select" /\ ranking_calls = 1
                \/ pc = "select" /\ comparison_results.missing_entities = EmptyDict)
       /\ (recommendations' # recommendations /\ pc = "await_advise")
            => selected_entities' = selected_entities
       /\ result' # result => AllReturned(recommendations)
      ]_vars

\* A run returned its result after three fetches, three analyses, one ranking
\* call and two advise calls, all of which had returned.
C11_Witness ==
    /\ result # <<>>
    /\ Len(scrape_results) >= 3
    /\ Len(analysis_results) = 3
    /\ ranking_calls = 1
    /\ Len(recommendations) = 2
    /\ AllReturned(recommendations)

\* A task of some fan-out stage of the run raised.
SomeTaskRaised ==
    \/ GatherRaised(scrape_results)
    \/ GatherRaised(analysis_results)
    \/ GatherRaised(recommendations)

\* The ranking call of the run raised: it was made, and the run ended with
\* neither advise tasks nor a result.
RankingRaised ==
    pc = "returned" /\ ranking_calls > 0 /\ recommendations = <<>> /\ result = <<>>

\* create_excel_report raised on the result of the run.
RenderingRaised == result # <<>> /\ ReportError(result) # ""

\* C12: the report file is written only when run_analysis returned a result
\* with every task of every stage returned and the rendering of that result
\* did not raise; after a failure of a fetch, analyze, ranking, advise or
\* rendering step main has logged one error and returned, and no report file
\* exists.
C12_ReportOnlyAfterSuccess ==
    /\ report_written =>
          /\ pc = "returned"
          /\ result # <<>>
          /\ ReportError(result) = ""
          /\ error = ""
          /\ AllReturned(scrape_results)
          /\ AllReturned(analysis_results)
          /\ AllReturned(recommendations)
    /\ (SomeTaskRaised \/ RankingRaised \/ RenderingRaised) => ~report_written
    /\ (pc = "returned" /\ (SomeTaskRaised \/ RankingRaised \/ RenderingRaised))
          => error # ""
    /\ pc = "returned" => (report_written \/ error # "")

\* run_analysis returned a result with a missing entity, the rendering raised
\* on it, and main returned with the error logged and no file written.
C12_Witness ==
    /\ pc = "returned"
    /\ result # <<>>
    /\ result.comparison_results.missing_entities # EmptyDict
    /\ error = "KeyError: 'relevance'"
    /\ ~report_written

\* A run whose every stage succeeded wrote its report.
C12_ReportWritten ==
    /\ pc = "returned"
    /\ report_written
    /\ Len(result.competitive_analyses) >= 2

\* select_entities_for_integration has been called and has returned.
SelectorReturned == pc \in {"await_advise", "report"} \/ result # <<>>

\* select_entities_for_integration has been called.
SelectorCalled == pc = "await_select" \/ SelectorReturned \/ ranking_calls > 0

\* C13: a selector call on an empty missing-entities mapping makes no ranking
\* call and returns an empty list; a call on a non-empty mapping makes exactly
\* one ranking call, given exactly one summary per missing entity (its name,
\* type, number of competitors and highest salience); no run makes two.
C13_OneRankingCallIfCandidates ==
    /\ ranking_calls \in {0, 1}
    /\ ~SelectorCalled => (ranking_calls = 0 /\ entity_details = {})
    /\ (SelectorCalled /\ comparison_results.missing_entities = EmptyDict) =>
          /\ ranking_calls = 0
          /\ entity_details = {}
          /\ selected_entities = <<>>
          /\ pc # "await_select"
    /\ (SelectorCalled /\ comparison_results.missing_entities # EmptyDict) =>
          /\ ranking_calls = 1
          /\ Cardinality(entity_details) =
                Cardinality(DOMAIN comparison_results.missing_entities)
          /\ \A name \in DOMAIN comparison_results.missing_entities :
                \E summary \in entity_details :
                    /\ summary.entity_name = name
                    /\ summary.entity_type = comparison_results.missing_entities[name].type
                    /\ summary.count_of_competitors_with_entity = Cardinality(
                          DOMAIN comparison_results.missing_entities[name].competitors)
                    /\ \E c \in DOMAIN comparison_results.missing_entities[name].competitors :
                          summary.max_salience =
                              comparison_results.missing_entities[name].competitors[c].salience
                    /\ \A c \in DOMAIN comparison_results.missing_entities[name].competitors :
                          summary.max_salience >=
                              comparison_results.missing_entities[name].competitors[c].salience

\* The selector was called with two missing entities and the ranking
\* capability received two summaries in its one call.
C13_Witness ==
    /\ SelectorReturned
    /\ Cardinality(DOMAIN comparison_results.missing_entities) = 2
    /\ Cardinality(entity_details) = 2
    /\ ranking_calls = 1

\* The selector was called with an empty mapping and the run went on to return
\* a result without a ranking call.
C13_EmptyMappingReturned ==
    /\ result # <<>>
    /\ comparison_results.missing_entities = EmptyDict
    /\ ranking_calls = 0
    /\ Len(competitive_analyses) >= 2

\* The label the claim gives the i-th URL of a list: comp_<domain> for the
\* first URL of the domain, comp_<domain>_<k> for the k-th.
LabelByPosition(list, i) ==
    LET domain == ReplaceWww(Netloc(list[i]))
        k == Cardinality({j \in 1..i : ReplaceWww(Netloc(list[j])) = domain})
    IN IF k >= 2 THEN "comp_" \o domain \o "_" \o ToString(k) ELSE "comp_" \o domain

\* C14 as stated: for every list of competitor URLs, lists that repeat a URL
\* included, the label run_analysis uses for the i-th competitor URL is the
\* label of its position.
C14_AsStated ==
    competitor_names # EmptyDict =>
        \A i \in 1..Len(competitor_urls) :
            competitor_names[competitor_urls[i]] = LabelByPosition(competitor_urls, i)

\* The value of a calculate_tf_idf call is the number 0.
IsZero(value) == value.exc = "" /\ (value.tf[1] = 0 \/ value.idf[1] = value.idf[2])

\* The term, compared as the function compares (lower case), is a
\* whitespace-delimited token of the document.
IsTokenOf(term, document) ==
    \E i \in 1..Len(document) : Lower(document[i]) = Lower(term)

\* The term occurs in the text of a document of the list.
OccursInSome(term, documents) ==
    \E i \in 1..Len(documents) : Contains(Lower(JoinWords(documents[i])), Lower(term))

\* C15: calculate_tf_idf raises on no input; it returns 0 when the term is no
\* token of the document, and returns 0 when the term occurs in no document of
\* all_documents, an empty document and an empty all_documents included.
C15_TfIdfZeroAndTotal ==
    pc = "tf_idf_done" =>
        /\ tf_idf.exc = ""
        /\ ~IsTokenOf(tf_idf_call.term, tf_idf_call.document) => IsZero(tf_idf)
        /\ ~OccursInSome(tf_idf_call.term, tf_idf_call.all_documents) => IsZero(tf_idf)

\* The term is a token of the document, all_documents is not empty and none
\* of its documents has the term, and the call returned 0.
C15_Witness ==
    /\ pc = "tf_idf_done"
    /\ IsTokenOf(tf_idf_call.term, tf_idf_call.document)
    /\ tf_idf_call.all_documents # <<>>
    /\ ~OccursInSome(tf_idf_call.term, tf_idf_call.all_documents)
    /\ IsZero(tf_idf)

\* A call returned a number that is not 0: the term is in one document of two.
C15_NonZeroValue ==
    /\ pc = "tf_idf_done"
    /\ tf_idf.exc = ""
    /\ ~IsZero(tf_idf)
    /\ tf_idf.tf = <<2, 3>>
    /\ tf_idf.idf = <<2, 1>>

\* C16 as stated: the result of a run holds as many entity_recommendations
\* entries as the selector listed entities, a repeated entity_name included,
\* and every entry is the recommendation the advise call for its selected
\* entity returned.
C16_AsStated ==
    result # <<>> =>
        /\ Cardinality(DOMAIN result.entity_recommendations) = Len(selected_entities)
        /\ \A k \in 1..Len(selected_entities) :
              result.entity_recommendations[selected_entities[k].entity_name]
                  = recommendations[k].value

\* C17 as stated: in a written report, whichever competitor fetches failed,
\* every competitor analysis of the result has its rows, and they name as
\* their source the URL of the page the analysis was computed from.
C17_AsStated ==
    report_written =>
        \A i \in 1..Len(result.competitive_analyses) :
            /\ i \in DOMAIN CompetitorSources(result, competitor_urls)
            /\ CompetitorSources(result, competitor_urls)[i] = valid_competitor_urls[i]

\* C18 as stated: in every keyword record analyze_content built, phrase_counts
\* is the number of times the entity name occurs as a bigram of the tokenized,
\* stop-word-filtered document the record was built from.
C18_AsStated ==
    \A j \in 1..Len(analysis_results) :
        analysis_results[j].st = "done" =>
            \A name \in DOMAIN analysis_results[j].value.keyword_analysis :
                analysis_results[j].value.keyword_analysis[name].phrase_counts =
                    BigramCount(remove_stopwords(tokenize(AnalyzedContent(j))), name)

\* run_analysis has been left, by its return or by an exception.
LeftRunAnalysis == scrape_results # <<>> /\ pc \in {"report", "returned"}

\* C19 as stated: once run_analysis has been left the session is closed, and
\* whenever the session is closed no scrape_content task of the run is still
\* pending, a fetch gather that raised with siblings running included.
C19_AsStated ==
    /\ LeftRunAnalysis => session = "closed"
    /\ session = "closed" => AllCompleted(scrape_results)

====
